---- MODULE Spec2Model ----
(***************************************************************************)
(* Batch pipeline of the DCO analysis system (src/app.py,                  *)
(* analyze_batch_data): the seven cleaning steps, the selection of the     *)
(* analysis window, the statistics / control limits / capability indices,  *)
(* the four anomaly rules and the anomaly table, the report of the outcome *)
(* by the main program, and the activity pipeline                          *)
(* (analyze_activity_data): its cleaning and its phase analysis.           *)
(*                                                                         *)
(* Numbers.  Durations are integers: seconds before step 7, hundredths of  *)
(* a minute after it (the code rounds minutes to 2 decimals).  A missing   *)
(* number (pandas NaN / NaT) is the sentinel NaN, and every comparison and *)
(* arithmetic operator below treats it as IEEE-754 does.                   *)
(***************************************************************************)
EXTENDS Integers, Sequences, FiniteSets, TLC

VARIABLES
    pc,               \* position in analyze_batch_data / the main program
    input,            \* the rows handed to analyze_batch_data (batch_df)
    columns,          \* the duration columns of df, by name
    df,               \* the data frame being cleaned
    time_threshold,   \* configuration input, seconds
    analysis_points,  \* configuration input, window size
    df_sorted,        \* the analysis window
    statistics,       \* results['statistics'] as computed so far
    results,          \* what analyze_batch_data returned (None: nothing)
    raised,           \* the exception that left analyze_batch_data, if any
    shown,            \* what the main program put on the page
    activity_file,    \* the activity file that was uploaded
    activity_results  \* what analyze_activity_data returned (None: nothing)

vars == <<pc, input, columns, df, time_threshold, analysis_points, df_sorted,
          statistics, results, raised, shown, activity_file, activity_results>>

----------------------------------------------------------------------------
(* Missing values and IEEE comparisons *)

NaN == -(10 ^ 9)               \* numeric NaN / NaT
NoId == NaN                    \* a missing Process Order ID
None == "None"
ValueError == NaN - 1          \* in place of a number: the call raised ValueError

IsNum(x) == x # NaN

\* a > b, a <= b as numpy evaluates them: any comparison with NaN is False
Gt(a, b) == IsNum(a) /\ IsNum(b) /\ a > b
Le(a, b) == IsNum(a) /\ IsNum(b) /\ a <= b

Range(s) == {s[i] : i \in DOMAIN s}

\* the rows of s at the positions in keep, in their order in s
Pick(s, keep) ==
    LET F[i \in 0..Len(s)] ==
            IF i = 0 THEN <<>>
            ELSE IF i \in keep THEN Append(F[i - 1], s[i]) ELSE F[i - 1]
    IN  F[Len(s)]

----------------------------------------------------------------------------
(* Program constants *)

DryClean == "dry-clean"        \* the Type value the code writes as U+5E72 U+6E05
WetClean == "wet-clean"        \* any other Type value

allowed_locations ==
    {"CP Line 9", "CP Line 10", "CP Line 11", "CP Line 12", "CP Line 05", "CP Line 08"}

ElapsedSeconds == "Time Elapsed (seconds)"
PlannedSeconds == "Planned Duration (seconds)"
ElapsedMinutes == "Time Elapsed (minutes)"
PlannedMinutes == "Planned Duration (minutes)"

----------------------------------------------------------------------------
(* Data cleaning, steps 1 to 7 *)

\* 1. df.dropna(subset=['Process Order ID'])
DropNaId(rows) == SelectSeq(rows, LAMBDA r : r.id # NoId)

DropDuplicatesKeepLast(rows) ==
    Pick(rows, {i \in DOMAIN rows :
                    \A j \in (i + 1)..Len(rows) : rows[j].id # rows[i].id})

\* 2. df.drop_duplicates(subset=['Process Order ID'], keep='first')
DropDuplicates(rows) ==
    Pick(rows, {i \in DOMAIN rows : \A j \in 1..(i - 1) : rows[j].id # rows[i].id})

\* 3. df.dropna(subset=['End date/time'])
DropNaEnd(rows) == SelectSeq(rows, LAMBDA r : r.end # NaN)

\* 4. df[df['Type'] == DryClean]
KeepDryClean(rows) == SelectSeq(rows, LAMBDA r : r.type = DryClean)

KeepEveryLocation(rows) == rows

\* 5. df[df['Location'].isin(allowed_locations)]
KeepAllowedLocations(rows) ==
    SelectSeq(rows, LAMBDA r : r.location \in allowed_locations)

\* 6. df[df['Time Elapsed (seconds)'] <= time_threshold], when the column exists
KeepWithinThreshold(rows, cols, threshold) ==
    IF ElapsedSeconds \in cols
    THEN SelectSeq(rows, LAMBDA r : Le(r.elapsed, threshold))
    ELSE rows

\* (seconds / 60).round(2), in hundredths of a minute: seconds * 100 / 60 rounded
\* to the nearest integer (5 * seconds / 3 never lies halfway between two)
ToMinutes(seconds) ==
    IF IsNum(seconds) THEN (10 * seconds + 3) \div 6 ELSE NaN

\* 7. the conversion of every duration column that exists
ConvertRows(rows, cols) ==
    [i \in DOMAIN rows |->
        [rows[i] EXCEPT
            !.elapsed = IF ElapsedSeconds \in cols THEN ToMinutes(@) ELSE @,
            !.planned = IF PlannedSeconds \in cols THEN ToMinutes(@) ELSE @]]

\* 7. the renaming of every converted column
RenameColumns(cols) ==
    {IF c = ElapsedSeconds THEN ElapsedMinutes
     ELSE IF c = PlannedSeconds THEN PlannedMinutes ELSE c : c \in cols}

\* steps 1 to 7 in the order of the code: the cleaned frame and its columns
CleanAll(rows, cols, threshold) ==
    LET s1 == DropNaId(rows)
        s2 == DropDuplicates(s1)
        s3 == DropNaEnd(s2)
        s4 == KeepDryClean(s3)
        s5 == KeepAllowedLocations(s4)
        s6 == KeepWithinThreshold(s5, cols, threshold)
    IN  [df |-> ConvertRows(s6, cols), columns |-> RenameColumns(cols)]

----------------------------------------------------------------------------
(* Window selection *)

Min(a, b) == IF a <= b THEN a ELSE b

IsOrdered(rows, ascending) ==
    \A i \in 1..(Len(rows) - 1) :
        IF ascending THEN rows[i].end <= rows[i + 1].end
        ELSE rows[i].end >= rows[i + 1].end

\* the arrangements of rows by a permutation of their positions
Arrangements(rows) ==
    IF rows = <<>> THEN {<<>>}
    ELSE {[i \in DOMAIN rows |-> rows[p[i]]] : p \in Permutations(DOMAIN rows)}

\* df.sort_values('End date/time', ascending=...), kind left at its default
\* 'quicksort', which pandas documents as not stable: the result is ordered by
\* the key, and rows with equal keys come in an order the call does not fix.
\* (numpy's introsort keeps ties in place only while a partition has at most 16
\* elements; the few rows of a frame here stand for the frames of 10 to 500
\* rows the panel asks for, so every order of the tied rows is an outcome.)
SortValues(rows, ascending) ==
    {s \in Arrangements(rows) : IsOrdered(s, ascending)}

HeadOneMore(rows, n) == SubSeq(rows, 1, Min(n + 1, Len(rows)))

\* .head(n), n >= 0
HeadRows(rows, n) == SubSeq(rows, 1, Min(n, Len(rows)))

OldestFirst(rows) == SortValues(rows, TRUE)

\* line 382, the first sort: newest first
NewestFirst(rows) == SortValues(rows, FALSE)

\* lines 382-383: the windows the two sorts and head(n) can produce
Windows(rows, n) ==
    UNION {SortValues(HeadRows(d, n), TRUE) : d \in NewestFirst(rows)}

----------------------------------------------------------------------------
(* Column lookup *)

\* the column names that contain 'Time Elapsed', resp. 'Planned'
TimeElapsedColumns == {ElapsedSeconds, ElapsedMinutes}
PlannedColumns == {PlannedSeconds, PlannedMinutes}

LookupAnyColumn(cols, exact, containing) ==
    IF exact \in cols THEN exact ELSE CHOOSE c \in cols : TRUE

\* lines 386-398: the exact name, or else a column whose name contains the word
LookupColumn(cols, exact, containing) ==
    IF exact \in cols THEN exact
    ELSE IF cols \cap containing # {} THEN CHOOSE c \in cols \cap containing : TRUE
    ELSE None

----------------------------------------------------------------------------
(* Statistics, control limits, capability indices                          *)
(*                                                                         *)
(* Exact arithmetic.  For a window of n points, a mean, a limit or a       *)
(* difference of the two is held as the integer 10 * n times its value (in *)
(* hundredths of a minute): n > 0, so sign, order and equality are those   *)
(* of the values.  A standard deviation is held as n * (n - ddof) times    *)
(* its square, which is 0, positive or NaN exactly when it is.  A          *)
(* capability index is held as 3 * std * 10 * n times its value (Cp: 6 *   *)
(* std * 10 * n), the divisor being positive wherever a division is made.  *)
(* The median and the percentiles are held as 100 times their value.       *)
(***************************************************************************)

Inf == 10 ^ 9                  \* numpy's +inf; -Inf is -inf

Sum(values) ==
    LET F[i \in 0..Len(values)] == IF i = 0 THEN 0 ELSE F[i - 1] + values[i]
    IN  F[Len(values)]

SumSquares(values) ==
    LET F[i \in 0..Len(values)] ==
            IF i = 0 THEN 0 ELSE F[i - 1] + values[i] * values[i]
    IN  F[Len(values)]

HasNaN(values) == \E i \in DOMAIN values : ~IsNum(values[i])

\* np.mean: NaN for no value (0 / 0) and for a NaN among the values
Mean(values) ==
    IF Len(values) = 0 \/ HasNaN(values) THEN NaN ELSE 10 * Sum(values)

\* np.std(values, ddof=ddof): NaN when n - ddof <= 0 (0 / 0)
Std(values, ddof) ==
    IF Len(values) - ddof <= 0 \/ HasNaN(values) THEN NaN
    ELSE Len(values) * SumSquares(values) - Sum(values) * Sum(values)

MinValueOrNaN(values) ==
    IF Len(values) = 0 THEN NaN
    ELSE CHOOSE v \in Range(values) : \A w \in Range(values) : v <= w

\* np.min: raises ValueError on a zero-size array
MinValue(values) ==
    IF Len(values) = 0 THEN ValueError
    ELSE CHOOSE v \in Range(values) : \A w \in Range(values) : v <= w

\* np.max: raises ValueError on a zero-size array
MaxValue(values) ==
    IF Len(values) = 0 THEN ValueError
    ELSE CHOOSE v \in Range(values) : \A w \in Range(values) : v >= w

\* np.sort: the values in ascending order
SortedValues(values) ==
    LET Before(i) == {j \in DOMAIN values :
                         \/ values[j] < values[i]
                         \/ values[j] = values[i] /\ j < i}
    IN  [k \in DOMAIN values |->
            values[CHOOSE i \in DOMAIN values : Cardinality(Before(i)) = k - 1]]

PercentileFromTop(values, q) ==
    LET s == SortedValues(values)
        h == (Len(values) - 1) * (100 - q)
        lo == h \div 100 + 1
        hi == Min(lo + 1, Len(values))
    IN  IF Len(values) = 0 \/ HasNaN(values) THEN NaN
        ELSE 100 * s[lo] + (h % 100) * (s[hi] - s[lo])

\* np.percentile(values, q), held as 100 times its value: the value at the
\* position (n - 1) * q / 100 of the sorted values, from 0, interpolated
\* between the two neighbours of a position that is not whole
Percentile(values, q) ==
    LET s == SortedValues(values)
        h == (Len(values) - 1) * q
        lo == h \div 100 + 1
        hi == Min(lo + 1, Len(values))
    IN  IF Len(values) = 0 \/ HasNaN(values) THEN NaN
        ELSE 100 * s[lo] + (h % 100) * (s[hi] - s[lo])

\* np.median, held as 100 times its value: the middle one of the sorted
\* values, or the mean of the middle two
Median(values) ==
    LET s == SortedValues(values)
        n == Len(values)
    IN  IF n = 0 \/ HasNaN(values) THEN NaN
        ELSE IF n % 2 = 1 THEN 100 * s[(n + 1) \div 2]
        ELSE 50 * (s[n \div 2] + s[n \div 2 + 1])

\* target_mean * 1.2 and the like: tenths / 10 times x
Times(x, tenths) == IF IsNum(x) THEN (tenths * x) \div 10 ELSE NaN

UnclampedLimit(x) == x

\* Python's max(0, x): x when x > 0, else 0 (also for a NaN x)
Max0(x) == IF Gt(x, 0) THEN x ELSE 0

\* Python's min(a, b): b when b < a, else a
PyMin(a, b) == IF IsNum(a) /\ IsNum(b) /\ b < a THEN b ELSE a

\* a - b in floating point
Minus(a, b) == IF IsNum(a) /\ IsNum(b) THEN a - b ELSE NaN

\* numerator / (k * std) in floating point: nan for a NaN operand and for
\* 0 / 0, +-inf for x / 0, and else the quotient
Divide(numerator, std) ==
    IF ~IsNum(numerator) \/ ~IsNum(std) THEN NaN
    ELSE IF std = 0
         THEN (IF numerator = 0 THEN NaN ELSE IF numerator > 0 THEN Inf ELSE -Inf)
         ELSE numerator

Unguarded(numerator, std) == Divide(numerator, std)

GuardedFromZero(numerator, std) ==
    IF IsNum(std) /\ std >= 0 THEN Divide(numerator, std) ELSE 0

\* x / (k * std) if std > 0 else 0
Guarded(numerator, std) == IF Gt(std, 0) THEN Divide(numerator, std) ELSE 0

ControlLimitsWideSpec(target_mean) ==
    [ucl |-> Times(target_mean, 12),
     lcl |-> Max0(Times(target_mean, 8)),
     uwl |-> Times(target_mean, 15),
     lwl |-> Max0(Times(target_mean, 5)),
     usl |-> Times(target_mean, 15),
     lsl |-> Times(target_mean, 5)]

\* lines 433-453: the limits derived from target_mean
ControlLimits(target_mean) ==
    [ucl |-> Times(target_mean, 12),
     lcl |-> Max0(Times(target_mean, 8)),
     uwl |-> Times(target_mean, 15),
     lwl |-> Max0(Times(target_mean, 5)),
     usl |-> Times(target_mean, 12),
     lsl |-> Times(target_mean, 8)]

\* lines 455-465: the capability indices
Capability(mean, std_sample, std_total, usl, lsl) ==
    LET cpu == Guarded(Minus(usl, mean), std_sample)
        cpl == Guarded(Minus(mean, lsl), std_sample)
        ppu == Guarded(Minus(usl, mean), std_total)
        ppl == Guarded(Minus(mean, lsl), std_total)
    IN  [cpu |-> cpu, cpl |-> cpl, cpk |-> PyMin(cpu, cpl),
         ppu |-> ppu, ppl |-> ppl, ppk |-> PyMin(ppu, ppl),
         cp |-> Guarded(Minus(usl, lsl), std_sample)]

----------------------------------------------------------------------------
(* Anomaly detection, lines 554-763                                        *)
(*                                                                         *)
(* Positions are Python's, 0 .. n - 1: position i is row i + 1 of the      *)
(* window.  The limits and the target mean are held as 10 * n times their  *)
(* value, so a window value is put on that scale before it is compared     *)
(* with one of them.                                                       *)
(***************************************************************************)

\* a < b, a >= b as numpy evaluates them
Lt(a, b) == IsNum(a) /\ IsNum(b) /\ a < b
Ge(a, b) == IsNum(a) /\ IsNum(b) /\ a >= b

\* data[i], i from 0
At(data, i) == data[i + 1]

\* the window values on the scale of the limits
OnScale(values) ==
    [i \in DOMAIN values |->
        IF IsNum(values[i]) THEN 10 * Len(values) * values[i] ELSE NaN]

\* the rule texts of safe_text, in English
Rule1 == "Rule 1: Outside Zone A"
Rule2 == "Rule 2: 9 points same side"
Rule3 == "Rule 3: 6 points trend"
Rule4 == "Rule 4: 14 points alternating"

OnOrOutsideLimits(value, ucl, lcl) == Ge(value, ucl) \/ Le(value, lcl)

BelowLowerLimit(value, ucl, lcl) == Lt(value, lcl)

\* line 562: value > ucl or value < lcl
OutsideLimits(value, ucl, lcl) == Gt(value, ucl) \/ Lt(value, lcl)

\* lines 561-562: the positions rule 1 flags
OutsidePositions(data, ucl, lcl) ==
    {i \in 0..(Len(data) - 1) : OutsideLimits(At(data, i), ucl, lcl)}

check_consecutive_not_below_or_not_above(data, target, n) ==
    UNION {i..(i + n - 1) : i \in
        {i \in 0..(Len(data) - n) :
            \/ \A j \in i..(i + n - 1) : Ge(At(data, j), target)
            \/ \A j \in i..(i + n - 1) : Le(At(data, j), target)}}

\* lines 584-594: every start i in range(len(data) - n + 1) whose segment
\* data[i:i+n] is wholly above or wholly below target adds i .. i+n-1; the
\* result is the set of the positions added
check_consecutive_on_one_side(data, target, n) ==
    UNION {i..(i + n - 1) : i \in
        {i \in 0..(Len(data) - n) :
            \/ \A j \in i..(i + n - 1) : Gt(At(data, j), target)
            \/ \A j \in i..(i + n - 1) : Lt(At(data, j), target)}}

check_trend_or_level(data, n) ==
    UNION {i..(i + n - 1) : i \in
        {i \in 0..(Len(data) - n) :
            \/ \A j \in 0..(n - 2) : Le(At(data, i + j), At(data, i + j + 1))
            \/ \A j \in 0..(n - 2) : Ge(At(data, i + j), At(data, i + j + 1))}}

check_trend_of_clipped_segments(data, n) ==
    UNION {i..(Min(i + n, Len(data)) - 1) : i \in
        {i \in 0..(Len(data) - 2) :
            \/ \A j \in i..(Min(i + n, Len(data)) - 2) :
                  Lt(At(data, j), At(data, j + 1))
            \/ \A j \in i..(Min(i + n, Len(data)) - 2) :
                  Gt(At(data, j), At(data, j + 1))}}

\* lines 618-628: the same for segments that rise at every step or fall at
\* every step
check_trend(data, n) ==
    UNION {i..(i + n - 1) : i \in
        {i \in 0..(Len(data) - n) :
            \/ \A j \in 0..(n - 2) : Lt(At(data, i + j), At(data, i + j + 1))
            \/ \A j \in 0..(n - 2) : Gt(At(data, i + j), At(data, i + j + 1))}}

check_alternating_either_way(data, n) ==
    UNION {i..(i + n - 1) : i \in
        {i \in 0..(Len(data) - n) :
            \/ \A j \in 0..(n - 2) :
                  IF j % 2 = 0 THEN Lt(At(data, i + j), At(data, i + j + 1))
                  ELSE Gt(At(data, i + j), At(data, i + j + 1))
            \/ \A j \in 0..(n - 2) :
                  IF j % 2 = 0 THEN Gt(At(data, i + j), At(data, i + j + 1))
                  ELSE Lt(At(data, i + j), At(data, i + j + 1))}}

\* lines 652-668: the same for segments whose steps go up at every even j and
\* down at every odd j
check_alternating(data, n) ==
    UNION {i..(i + n - 1) : i \in
        {i \in 0..(Len(data) - n) :
            \A j \in 0..(n - 2) :
                IF j % 2 = 0 THEN Lt(At(data, i + j), At(data, i + j + 1))
                ELSE Gt(At(data, i + j), At(data, i + j + 1))}}

\* round(x, 2) of a number of hundredths
Round2(x) == x

AnomalyRecordOfFirstTarget(window, idx, rule) ==
    LET row == window[idx + 1]
    IN  [seq |-> idx + 1,
         location |-> row.location,
         id |-> row.id,
         time |-> row.end,
         actual |-> Round2(row.elapsed),
         target |-> Round2(window[1].planned),
         deviation |-> Round2(Minus(row.elapsed, window[1].planned)),
         rule |-> rule]

\* lines 567-576 (and 601-610, 635-644, 676-685): the record of position idx.
\* The fields are, in the order of the code, point number, line, batch
\* number, time, actual value, target value, deviation, rule.
AnomalyRecord(window, idx, rule) ==
    LET row == window[idx + 1]
    IN  [seq |-> idx + 1,
         location |-> row.location,
         id |-> row.id,
         time |-> row.end,
         actual |-> Round2(row.elapsed),
         target |-> Round2(row.planned),
         deviation |-> Round2(Minus(row.elapsed, row.planned)),
         rule |-> rule]

\* the positions of a set in ascending order.  (The order in which Python
\* walks list(set(...)) is not fixed by the language; sort_values at line 763
\* makes the table the same for every order.)
Ascending(positions) ==
    [k \in 1..Cardinality(positions) |->
        CHOOSE x \in positions : Cardinality({y \in positions : y < x}) = k - 1]

\* [a[seq] - 1 for a in anomaly_records]
Recorded(records) == {records[k].seq - 1 : k \in DOMAIN records}

\* lines 561-577: a record for every position, in order
AppendAll(records, window, positions, rule) ==
    LET F[k \in 0..Len(positions)] ==
            IF k = 0 THEN records
            ELSE Append(F[k - 1], AnomalyRecord(window, positions[k], rule))
    IN  F[Len(positions)]

\* lines 597-610 (631-644, 672-685): a record for every position that has none
AppendRule(records, window, positions, rule) ==
    LET AppendNew(list, idx) ==
            IF idx \in Recorded(list) THEN list
            ELSE Append(list, AnomalyRecord(window, idx, rule))
        F[k \in 0..Len(positions)] ==
            IF k = 0 THEN records ELSE AppendNew(F[k - 1], positions[k])
    IN  F[Len(positions)]

anomaly_records_last_rule_first(window, st) ==
    LET values == [i \in DOMAIN window |-> window[i].elapsed]
        rule4 == AppendAll(<<>>, window,
                     Ascending(check_alternating(values, 14)), Rule4)
        rule3 == AppendRule(rule4, window,
                     Ascending(check_trend(values, 6)), Rule3)
        rule2 == AppendRule(rule3, window,
                     Ascending(check_consecutive_on_one_side(
                                   OnScale(values), st.target_mean, 9)), Rule2)
    IN  AppendRule(rule2, window,
            Ascending(OutsidePositions(OnScale(values), st.ucl, st.lcl)), Rule1)

\* lines 554-690: anomaly_records after the four rules
anomaly_records(window, st) ==
    LET values == [i \in DOMAIN window |-> window[i].elapsed]
        rule1 == AppendAll(<<>>, window,
                     Ascending(OutsidePositions(OnScale(values), st.ucl, st.lcl)),
                     Rule1)
        rule2 == AppendRule(rule1, window,
                     Ascending(check_consecutive_on_one_side(
                                   OnScale(values), st.target_mean, 9)), Rule2)
        rule3 == AppendRule(rule2, window,
                     Ascending(check_trend(values, 6)), Rule3)
    IN  AppendRule(rule3, window,
            Ascending(check_alternating(values, 14)), Rule4)

DropDuplicateLocations(records) ==
    Pick(records, {i \in DOMAIN records :
                     \A j \in 1..(i - 1) : records[j].location # records[i].location})

\* line 761: drop_duplicates(subset=[batch number, time]), the first one kept
DropDuplicateRecords(records) ==
    Pick(records, {i \in DOMAIN records :
                     \A j \in 1..(i - 1) :
                         <<records[j].id, records[j].time>>
                             # <<records[i].id, records[i].time>>})

Unsorted(records) == records

\* line 763: sort_values by point number.  No two records of the list have
\* the same point number, so the order is the same for every sort algorithm;
\* equal numbers would stay in their order here.
SortBySeq(records) ==
    LET Before(i) == {j \in DOMAIN records :
                         \/ records[j].seq < records[i].seq
                         \/ records[j].seq = records[i].seq /\ j < i}
    IN  [k \in DOMAIN records |->
            records[CHOOSE i \in DOMAIN records : Cardinality(Before(i)) = k - 1]]

TableOfEveryMatch(window, st) ==
    LET values == [i \in DOMAIN window |-> window[i].elapsed]
        rule1 == AppendAll(<<>>, window,
                     Ascending(OutsidePositions(OnScale(values), st.ucl, st.lcl)),
                     Rule1)
        rule2 == AppendAll(rule1, window,
                     Ascending(check_consecutive_on_one_side(
                                   OnScale(values), st.target_mean, 9)), Rule2)
        rule3 == AppendAll(rule2, window,
                     Ascending(check_trend(values, 6)), Rule3)
    IN  SortBySeq(AppendAll(rule3, window,
                      Ascending(check_alternating(values, 14)), Rule4))

\* the positions of a set, last one first
Descending(positions) ==
    [k \in 1..Cardinality(positions) |->
        CHOOSE x \in positions : Cardinality({y \in positions : y > x}) = k - 1]

\* lines 594-597 (628-631, 668-672): the list Python makes of the set, walked
\* by the loop of the rule.  The language leaves the order of the list open;
\* the first position first and the last position first stand for the orders.
Walk(positions, ascending) ==
    IF ascending THEN Ascending(positions) ELSE Descending(positions)

\* lines 554-690: anomaly_records after the four rules, the lists of rules 2,
\* 3 and 4 walked one way or the other; rule 1 enumerates the window
RecordsWalked(window, st, ascending) ==
    LET values == [i \in DOMAIN window |-> window[i].elapsed]
        rule1 == AppendAll(<<>>, window,
                     Ascending(OutsidePositions(OnScale(values), st.ucl, st.lcl)),
                     Rule1)
        rule2 == AppendRule(rule1, window,
                     Walk(check_consecutive_on_one_side(
                              OnScale(values), st.target_mean, 9), ascending),
                     Rule2)
        rule3 == AppendRule(rule2, window,
                     Walk(check_trend(values, 6), ascending), Rule3)
    IN  AppendRule(rule3, window,
            Walk(check_alternating(values, 14), ascending), Rule4)

\* lines 758-763: the anomaly tables of the runs on one window
AnomalyTables(window, st) ==
    {SortBySeq(DropDuplicateRecords(RecordsWalked(window, st, ascending))) :
        ascending \in BOOLEAN}

\* lines 758-763: the anomaly table of the results; with no record it stays
\* None, which is held as the empty list
AnomalyTable(window, st) ==
    SortBySeq(DropDuplicateRecords(anomaly_records(window, st)))

----------------------------------------------------------------------------
(* Activity pipeline, analyze_activity_data, lines 768-877                 *)
(*                                                                         *)
(* A row of the activity file has an Area, a Changeover Type, an Actual    *)
(* Duration (seconds) and a Phase Name.                                    *)
(***************************************************************************)

\* line 783, as the code writes the six lines
area_list ==
    {"CPLine 9", "CP Line 10", "CP Line 11", "CP Line 12", "CP Line 05", "CP Line08"}

\* line 816: the four phases, which the code writes as U+6E05 U+573A U+524D
\* U+51C6 U+5907, U+6E05 U+573A, U+5207 U+6362 and U+4EA7 U+7EBF U+914D U+7F6E
phases == <<"preparation", "clearance", "changeover", "line setup">>

\* line 784: df[df['Area'].isin(area_list)]
KeepAreas(rows) == SelectSeq(rows, LAMBDA r : r.area \in area_list)

\* line 788: df[df['Changeover Type'] == DryClean]
KeepDryCleanChangeovers(rows) == SelectSeq(rows, LAMBDA r : r.type = DryClean)

\* line 793: df.dropna(subset=['Actual Duration (seconds)'])
DropNaDuration(rows) == SelectSeq(rows, LAMBDA r : r.seconds # NaN)

\* lines 798-799: the new column Actual Duration (minutes)
AddMinutes(rows) ==
    [i \in DOMAIN rows |-> rows[i] @@ [minutes |-> ToMinutes(rows[i].seconds)]]

\* lines 782-799: the cleaned activity rows
ActivityClean(rows) ==
    AddMinutes(DropNaDuration(KeepDryCleanChangeovers(KeepAreas(rows))))

\* line 819: df[df['Phase Name'] == phase]
PhaseData(rows, phase) == SelectSeq(rows, LAMBDA r : r.phase = phase)

\* lines 825-827 and 864-875: the entry of a phase, with its shortest and
\* longest duration and its number of records
PhaseEntry(phase_data) ==
    LET minutes == [i \in DOMAIN phase_data |-> phase_data[i].minutes]
    IN  [min_duration |-> IF minutes = <<>> THEN NaN ELSE MinValue(minutes),
         max_duration |-> IF minutes = <<>> THEN NaN ELSE MaxValue(minutes),
         count |-> Len(phase_data)]

PhaseAnalysisOfEveryPhase(rows) ==
    [phase \in Range(phases) |-> PhaseEntry(PhaseData(rows, phase))]

\* lines 818-875: an entry for every phase that has rows (a phase without
\* rows is passed over by continue)
PhaseAnalysis(rows) ==
    [phase \in {p \in Range(phases) : Len(PhaseData(rows, p)) # 0} |->
        PhaseEntry(PhaseData(rows, phase))]

\* lines 768-877: the results, the cleaning log being the row counts it names
analyze_activity_data(rows) ==
    [cleaning_steps |->
         <<Len(rows), Len(KeepAreas(rows)),
           Len(KeepDryCleanChangeovers(KeepAreas(rows))),
           Len(ActivityClean(rows))>>,
     phase_analysis |-> PhaseAnalysis(ActivityClean(rows)),
     figures |-> {}]

----------------------------------------------------------------------------
(* analyze_batch_data, statement by statement, and the main program *)

Step1 ==
    /\ pc = "step1"
    /\ df' = DropNaId(df)
    /\ pc' = "step2"
    /\ UNCHANGED <<activity_file, activity_results>>
    /\ UNCHANGED <<input, columns, time_threshold, analysis_points, df_sorted,
                   statistics, results, raised, shown>>

Step2 ==
    /\ pc = "step2"
    /\ df' = DropDuplicates(df)
    /\ pc' = "step3"
    /\ UNCHANGED <<activity_file, activity_results>>
    /\ UNCHANGED <<input, columns, time_threshold, analysis_points, df_sorted,
                   statistics, results, raised, shown>>

Step3 ==
    /\ pc = "step3"
    /\ df' = DropNaEnd(df)
    /\ pc' = "step4"
    /\ UNCHANGED <<activity_file, activity_results>>
    /\ UNCHANGED <<input, columns, time_threshold, analysis_points, df_sorted,
                   statistics, results, raised, shown>>

Step4 ==
    /\ pc = "step4"
    /\ df' = KeepDryClean(df)
    /\ pc' = "step5"
    /\ UNCHANGED <<activity_file, activity_results>>
    /\ UNCHANGED <<input, columns, time_threshold, analysis_points, df_sorted,
                   statistics, results, raised, shown>>

Step5 ==
    /\ pc = "step5"
    /\ df' = KeepAllowedLocations(df)
    /\ pc' = "step6"
    /\ UNCHANGED <<activity_file, activity_results>>
    /\ UNCHANGED <<input, columns, time_threshold, analysis_points, df_sorted,
                   statistics, results, raised, shown>>

Step6 ==
    /\ pc = "step6"
    /\ df' = KeepWithinThreshold(df, columns, time_threshold)
    /\ pc' = "step7"
    /\ UNCHANGED <<activity_file, activity_results>>
    /\ UNCHANGED <<input, columns, time_threshold, analysis_points, df_sorted,
                   statistics, results, raised, shown>>

Step7 ==
    /\ pc = "step7"
    /\ df' = ConvertRows(df, columns)
    /\ columns' = RenameColumns(columns)
    /\ pc' = "sort_head"
    /\ UNCHANGED <<activity_file, activity_results>>
    /\ UNCHANGED <<input, time_threshold, analysis_points, df_sorted,
                   statistics, results, raised, shown>>

\* line 382
SortHead ==
    /\ pc = "sort_head"
    /\ \E d \in NewestFirst(df) : df_sorted' = HeadRows(d, analysis_points)
    /\ pc' = "sort_asc"
    /\ UNCHANGED <<activity_file, activity_results>>
    /\ UNCHANGED <<input, columns, df, time_threshold, analysis_points,
                   statistics, results, raised, shown>>

\* line 383
SortAsc ==
    /\ pc = "sort_asc"
    /\ \E s \in SortValues(df_sorted, TRUE) : df_sorted' = s
    /\ pc' = "columns"
    /\ UNCHANGED <<activity_file, activity_results>>
    /\ UNCHANGED <<input, columns, df, time_threshold, analysis_points,
                   statistics, results, raised, shown>>

\* lines 385-402: st.error and return None when a column cannot be found
FindColumns ==
    /\ pc = "columns"
    /\ IF  \/ LookupColumn(columns, ElapsedMinutes, TimeElapsedColumns) = None
           \/ LookupColumn(columns, PlannedMinutes, PlannedColumns) = None
       THEN /\ shown' = Append(shown, "error: columns not found")
            /\ pc' = "returned"
       ELSE /\ shown' = shown
            /\ pc' = "statistics"
    /\ UNCHANGED <<activity_file, activity_results>>
    /\ UNCHANGED <<input, columns, df, time_threshold, analysis_points, df_sorted,
                   statistics, results, raised>>

data_values == [i \in DOMAIN df_sorted |-> df_sorted[i].elapsed]
target_values == [i \in DOMAIN df_sorted |-> df_sorted[i].planned]

\* lines 404-431: np.min raises on an empty window, and the exception leaves
\* analyze_batch_data
ComputeStatistics ==
    /\ pc = "statistics"
    /\ IF MinValue(data_values) = ValueError
       THEN /\ raised' = "ValueError"
            /\ statistics' = statistics
            /\ pc' = "returned"
       ELSE /\ raised' = raised
            /\ statistics' =
                 <<[n_points |-> Len(data_values),
                    overall_mean |-> Mean(data_values),
                    overall_median |-> Median(data_values),
                    overall_std |-> Std(data_values, 1),
                    front_10_percentile |->
                        Percentile(SortedValues(data_values), 10),
                    back_10_percentile |->
                        Percentile(SortedValues(data_values), 90),
                    front_25_percentile |->
                        Percentile(SortedValues(data_values), 25),
                    back_25_percentile |->
                        Percentile(SortedValues(data_values), 75),
                    min_value |-> MinValue(data_values),
                    max_value |-> MaxValue(data_values),
                    range_value |-> MaxValue(data_values) - MinValue(data_values),
                    target_mean |-> Mean(target_values)]>>
            /\ pc' = "limits"
    /\ UNCHANGED <<activity_file, activity_results>>
    /\ UNCHANGED <<input, columns, df, time_threshold, analysis_points, df_sorted,
                   results, shown>>

\* lines 433-453
ComputeLimits ==
    /\ pc = "limits"
    /\ statistics' = <<statistics[1] @@ ControlLimits(statistics[1].target_mean)>>
    /\ pc' = "capability"
    /\ UNCHANGED <<activity_file, activity_results>>
    /\ UNCHANGED <<input, columns, df, time_threshold, analysis_points, df_sorted,
                   results, raised, shown>>

\* lines 455-502
ComputeCapability ==
    /\ pc = "capability"
    /\ LET st == statistics[1]
           std_total == Std(data_values, 0)
       IN  statistics' =
               <<st @@ [std_total |-> std_total]
                    @@ Capability(st.overall_mean, st.overall_std, std_total,
                                  st.usl, st.lsl)>>
    /\ pc' = "finish"
    /\ UNCHANGED <<activity_file, activity_results>>
    /\ UNCHANGED <<input, columns, df, time_threshold, analysis_points, df_sorted,
                   results, raised, shown>>

\* lines 504-765: the chart, the anomaly table, return results
Finish ==
    /\ pc = "finish"
    /\ results' = <<[statistics |-> statistics[1],
                      figures |-> {"spc_chart"},
                      anomalies |-> AnomalyTable(df_sorted, statistics[1])]>>
    /\ pc' = "returned"
    /\ UNCHANGED <<activity_file, activity_results>>
    /\ UNCHANGED <<input, columns, df, time_threshold, analysis_points, df_sorted,
                   statistics, raised, shown>>

\* lines 888-1023 and 1208-1210: the main program shows the batch results, or
\* the error its except clause caught, which ends the run
Report ==
    /\ pc = "returned"
    /\ shown' = IF raised # None THEN Append(shown, "error: exception")
                ELSE IF results # <<>> THEN Append(shown, "batch results")
                ELSE shown
    /\ pc' = "reported"
    /\ UNCHANGED <<activity_file, activity_results>>
    /\ UNCHANGED <<input, columns, df, time_threshold, analysis_points, df_sorted,
                   statistics, results, raised>>

\* lines 1025-1210, inside the same try as the batch part: the activity file
\* is read and analysed when the batch part raised nothing.
\* analyze_activity_data returns its results, or raises KeyError on a file
\* without the columns it selects by, and the except clause shows the error.
Activity ==
    /\ pc = "reported"
    /\ raised = None
    /\ IF activity_file.has_columns
       THEN /\ activity_results' = <<analyze_activity_data(activity_file.rows)>>
            /\ shown' = Append(shown, "activity results")
       ELSE /\ activity_results' = activity_results
            /\ shown' = Append(shown, "error: activity exception")
    /\ pc' = "done"
    /\ UNCHANGED <<input, columns, df, time_threshold, analysis_points, df_sorted,
                   statistics, results, raised, activity_file>>

NextClean == Step1 \/ Step2 \/ Step3 \/ Step4 \/ Step5 \/ Step6 \/ Step7

NextWindow == SortHead \/ SortAsc

NextActivity == Activity

NextDetect ==
    FindColumns \/ ComputeStatistics \/ ComputeLimits \/ ComputeCapability
        \/ Finish

NextStats ==
    FindColumns \/ ComputeStatistics \/ ComputeLimits \/ ComputeCapability
        \/ Finish \/ Report \/ Activity

Next == NextClean \/ NextWindow \/ NextStats

----------------------------------------------------------------------------
(* Inputs *)

MaxRows == 2        \* raw rows of a cleaning run
MaxCleaned == 4     \* rows of a window-selection run
MaxEnd == 3         \* distinct end times of a window-selection run
MaxPoints == 3      \* analysis_points of a window-selection run
MaxWindow == 3      \* rows of a statistics run

MaxDetect == 15     \* rows of an anomaly-detection run
MaxActivity == 2    \* rows of an activity file

MinThreshold == 3600        \* the smallest time_threshold the panel accepts
DefaultThreshold == 10800   \* its default

\* elapsed seconds of a cleaning run: none, and the two thresholds
RawElapsed == {NaN, MinThreshold, DefaultThreshold}

\* a line of the allow-list and a line that is not on it
RawLocations == {"CP Line 9", "CPLine 9"}

\* elapsed and planned seconds of a statistics run: 8, 10, 15 minutes against
\* -10, 10, 20 minutes
StatsElapsed == {480, 600, 900}
StatsPlanned == {-600, 600, 1200}

\* the frames of k rows with fields from the given sets; idx is the row label
Frames(k, fields) ==
    {[i \in 1..k |-> f[i] @@ [idx |-> i]] : f \in [1..k -> fields]}

\* the same, each row with its own Process Order ID
FramesUniqueId(k, fields) ==
    {[i \in 1..k |-> f[i] @@ [idx |-> i, id |-> i]] : f \in [1..k -> fields]}

\* the same, with end times that follow the row order too
FramesInOrder(k, fields) ==
    {[i \in 1..k |-> f[i] @@ [idx |-> i, id |-> i, end |-> i]] :
        f \in [1..k -> fields]}

BothColumns == {ElapsedSeconds, PlannedSeconds}

Start(rows, cols, threshold, points) ==
    /\ input = rows
    /\ columns = cols
    /\ df = rows
    /\ time_threshold = threshold
    /\ analysis_points = points
    /\ df_sorted = <<>>
    /\ statistics = <<>>
    /\ results = <<>>
    /\ raised = None
    /\ shown = <<>>
    /\ pc = "step1"

\* an activity file of one row that the activity cleaning keeps
PlainFile ==
    [has_columns |-> TRUE,
     rows |-> <<[area |-> "CP Line 10", type |-> DryClean, seconds |-> 600,
                 phase |-> "changeover"]>>]

\* an activity file without one of the columns Area, Changeover Type, Actual
\* Duration (seconds), Phase Name, Task Description
FileWithoutColumns == [has_columns |-> FALSE, rows |-> <<>>]

\* the activity file is uploaded and not analysed yet
Upload(file) ==
    /\ activity_file = file
    /\ activity_results = <<>>

\* any rows, with or without the elapsed column
InitClean ==
    /\ Upload(PlainFile)
    /\ \E cols \in {BothColumns, {PlannedSeconds}}, k \in 0..MaxRows,
          threshold \in {MinThreshold, DefaultThreshold} :
           \E rows \in Frames(k, [id : {NoId, 1, 2}, end : {NaN, 1},
                                  type : {DryClean, WetClean},
                                  location : RawLocations,
                                  elapsed : IF ElapsedSeconds \in cols
                                            THEN RawElapsed ELSE {NaN},
                                  planned : {MinThreshold}]) :
               Start(rows, cols, threshold, MaxPoints)

\* analyze_batch_data after its cleaning of rows
Cleaned(rows, cols, threshold, points) ==
    /\ input = rows
    /\ columns = CleanAll(rows, cols, threshold).columns
    /\ df = CleanAll(rows, cols, threshold).df
    /\ time_threshold = threshold
    /\ analysis_points = points
    /\ df_sorted = <<>>
    /\ statistics = <<>>
    /\ results = <<>>
    /\ raised = None
    /\ shown = <<>>
    /\ pc = "sort_head"

\* cleaned rows that differ in their end times
InitWindow ==
    /\ Upload(PlainFile)
    /\ \E k \in 0..MaxCleaned, points \in 1..MaxPoints :
           \E rows \in FramesUniqueId(k, [end : 1..MaxEnd, type : {DryClean},
                                          location : {"CP Line 9"},
                                          elapsed : {MinThreshold},
                                          planned : {MinThreshold}]) :
               Cleaned(rows, BothColumns, DefaultThreshold, points)

\* analyze_batch_data after its window selection
Selected(rows, cols, threshold, points, window) ==
    /\ input = rows
    /\ columns = CleanAll(rows, cols, threshold).columns
    /\ df = CleanAll(rows, cols, threshold).df
    /\ time_threshold = threshold
    /\ analysis_points = points
    /\ df_sorted = window
    /\ statistics = <<>>
    /\ results = <<>>
    /\ raised = None
    /\ shown = <<>>
    /\ pc = "columns"

\* windows that differ in their elapsed and planned durations
InitStats ==
    /\ Upload(PlainFile)
    /\ \E k \in 0..MaxWindow :
           \E rows \in FramesInOrder(k, [type : {DryClean}, location : {"CP Line 9"},
                                         elapsed : StatsElapsed,
                                         planned : StatsPlanned]) :
               \E window \in Windows(CleanAll(rows, BothColumns, DefaultThreshold).df,
                                     MaxWindow) :
                   Selected(rows, BothColumns, DefaultThreshold, MaxWindow, window)

\* the courses of the elapsed time over an anomaly-detection run: level with
\* a planned duration of 10 minutes, above it, far above it, below it, rising
\* and falling through it by 0.2 minutes a row, and going up and down around it
Shapes ==
    {"level", "above", "high", "below", "rising", "falling", "up-down", "down-up"}

\* the elapsed time of row i, in hundredths of a minute
ShapeValue(shape, i) ==
    CASE shape = "level" -> 1000
      [] shape = "above" -> 1100
      [] shape = "high" -> 1500
      [] shape = "below" -> 900
      [] shape = "rising" -> 940 + 20 * i
      [] shape = "falling" -> 1060 - 20 * i
      [] shape = "up-down" -> IF i % 2 = 1 THEN 950 ELSE 1050
      [] shape = "down-up" -> IF i % 2 = 1 THEN 1050 ELSE 950

\* the elapsed time of the one row that leaves the course
Spikes == {700, 800, 1000, 1200, 1300}

\* the planned durations: 10 minutes in every row, or 8 and 12 minutes in turn
Plans == {"same", "mixed"}

PlanValue(plan, i) ==
    IF plan = "same" THEN 1000 ELSE IF i % 2 = 1 THEN 800 ELSE 1200

\* the seconds that step 7 converts to h hundredths of a minute
Seconds(h) == (6 * h) \div 10

\* k rows as read from the file, in the order of their end times, that the
\* cleaning keeps: row spike, if any, has the elapsed time value
DetectRows(k, shape, plan, spike, value) ==
    [i \in 1..k |->
        [idx |-> i, id |-> i, end |-> i, type |-> DryClean,
         location |-> "CP Line 9",
         elapsed |-> Seconds(IF i = spike THEN value ELSE ShapeValue(shape, i)),
         planned |-> Seconds(PlanValue(plan, i))]]

\* windows of up to MaxDetect rows: a course with at most one row off it
InitDetect ==
    /\ Upload(PlainFile)
    /\ \E k \in 0..MaxDetect, shape \in Shapes, plan \in Plans :
           \E spike \in 0..k :
               \E value \in IF spike = 0 THEN {0} ELSE Spikes :
                   LET rows == DetectRows(k, shape, plan, spike, value)
                   IN  Selected(rows, BothColumns, DefaultThreshold, MaxDetect,
                                CleanAll(rows, BothColumns, DefaultThreshold).df)

\* the activity files of up to MaxActivity rows: a line of both lists, a line
\* of the batch list only and a line of the activity list only; a dry clean
\* or not; with or without a duration; two of the four phases and another one
ActivityFiles ==
    {FileWithoutColumns} \cup
    {[has_columns |-> TRUE, rows |-> rows] :
        rows \in UNION {[1..k -> [area : {"CP Line 10", "CP Line 9", "CPLine 9"},
                                  type : {DryClean, WetClean},
                                  seconds : {NaN, 600},
                                  phase : {"clearance", "changeover", "other"}]] :
                           k \in 0..MaxActivity}}

\* the main program after a batch part that found no elapsed column in a file
\* without rows, and before the activity part
InitActivity ==
    /\ \E file \in ActivityFiles : Upload(file)
    /\ input = <<>>
    /\ columns = {PlannedMinutes}
    /\ df = <<>>
    /\ time_threshold = DefaultThreshold
    /\ analysis_points = 1
    /\ df_sorted = <<>>
    /\ statistics = <<>>
    /\ results = <<>>
    /\ raised = None
    /\ shown = <<"error: columns not found">>
    /\ pc = "reported"

\* a whole run, of the batch part and the activity part
Init ==
    /\ \E file \in {PlainFile, FileWithoutColumns} : Upload(file)
    /\ \E cols \in {BothColumns, {PlannedSeconds}, {ElapsedSeconds}}, k \in 0..MaxRows :
           \E rows \in Frames(k, [id : {1, 2}, end : {1, 2},
                                  type : {DryClean, WetClean},
                                  location : {"CP Line 9"},
                                  elapsed : IF ElapsedSeconds \in cols
                                            THEN {600, DefaultThreshold + 60}
                                            ELSE {NaN},
                                  planned : IF PlannedSeconds \in cols
                                            THEN {600} ELSE {NaN}]) :
               Start(rows, cols, DefaultThreshold, 1)

SpecClean == InitClean /\ [][NextClean]_vars
SpecWindow == InitWindow /\ [][NextWindow]_vars
SpecStats == InitStats /\ [][NextStats]_vars
SpecDetect == InitDetect /\ [][NextDetect]_vars
SpecActivity == InitActivity /\ [][NextActivity]_vars
Spec == Init /\ [][Next]_vars

----------------------------------------------------------------------------
(* Properties of the cleaning *)

CleaningDone == pc = "sort_head"

\* C1: after the cleaning of an input that has the elapsed column, every
\* surviving record has a Process Order ID and an end time, is a dry clean on
\* one of the six lines, has an elapsed time (in seconds, as read) not above
\* time_threshold, and shares its Process Order ID with no other survivor.
CleanedRecordsValid ==
    (CleaningDone /\ ElapsedMinutes \in columns) =>
        \A i \in DOMAIN df :
            /\ df[i].id # NoId
            /\ df[i].end # NaN
            /\ df[i].type = DryClean
            /\ df[i].location \in
                 {"CP Line 9", "CP Line 10", "CP Line 11", "CP Line 12",
                  "CP Line 05", "CP Line 08"}
            /\ ~Gt(input[df[i].idx].elapsed, time_threshold)
            /\ \A j \in DOMAIN df : j # i => df[j].id # df[i].id

\* C1 witness: a cleaning with the elapsed column that removed a row and kept one
CleanedRemovedAndKept ==
    /\ CleaningDone
    /\ ElapsedMinutes \in columns
    /\ Len(df) >= 1
    /\ Len(input) > Len(df)

\* C2: every record that survives the cleaning is the first input row that
\* carries its Process Order ID: duplicates are decided at step 2, before the
\* filters of steps 3 to 6, so a later duplicate never stands in for a first
\* occurrence that a later step removes.
FirstOccurrenceSurvives ==
    CleaningDone =>
        \A i \in DOMAIN df :
            \A k \in DOMAIN input :
                input[k].id = df[i].id => df[i].idx <= k

\* C2 witness: a duplicated Process Order ID whose first row survived
DuplicateFirstKept ==
    /\ CleaningDone
    /\ \E k \in DOMAIN input, l \in DOMAIN input :
          /\ k < l
          /\ input[k].id = input[l].id
          /\ \E i \in DOMAIN df : df[i].idx = k

\* C3: step 6 removes exactly the rows whose elapsed seconds are greater than
\* time_threshold: every other row that enters the step, one with no elapsed
\* value included, leaves it.
Step6RemovesOnlyAbove ==
    [][(pc = "step6" /\ ElapsedSeconds \in columns) =>
          df' = SelectSeq(df, LAMBDA r :
                    ~(IsNum(r.elapsed) /\ r.elapsed > time_threshold))]_vars

----------------------------------------------------------------------------
(* Properties of the window *)

WindowDone == pc = "columns"

\* C4: the window has min(analysis_points, len(cleaned)) records, all of them
\* cleaned records, and its end times never decrease from one position to the
\* next.
WindowSizeAndOrder ==
    WindowDone =>
        /\ Len(df_sorted) = Min(analysis_points, Len(df))
        /\ Range(df_sorted) \subseteq Range(df)
        /\ \A i \in 1..(Len(df_sorted) - 1) :
              df_sorted[i].end <= df_sorted[i + 1].end

\* C4 witness: fewer cleaned rows than analysis_points, not in time order
WindowOfAllRows ==
    /\ WindowDone
    /\ Len(df) < analysis_points
    /\ \E i \in DOMAIN df, j \in DOMAIN df : i < j /\ df[i].end > df[j].end

\* C5: no cleaned record left out of the window ended after a record of the
\* window.
WindowIsMostRecent ==
    WindowDone =>
        \A r \in Range(df_sorted) :
            \A c \in Range(df) \ Range(df_sorted) : r.end >= c.end

\* C5 witness: a window that leaves out an older record
WindowLeavesOlderOut ==
    /\ WindowDone
    /\ \E r \in Range(df_sorted) :
          \E c \in Range(df) \ Range(df_sorted) : r.end > c.end

\* C6: two records of the window with the same end time stand in the window
\* in the order they have in the cleaned frame.
WindowTiesKeepOrder ==
    WindowDone =>
        \A i \in DOMAIN df_sorted, j \in DOMAIN df_sorted :
            (i < j /\ df_sorted[i].end = df_sorted[j].end)
                => df_sorted[i].idx < df_sorted[j].idx

----------------------------------------------------------------------------
(* Properties of the limits and of the capability indices *)

LimitsDone == statistics # <<>> /\ "ucl" \in DOMAIN statistics[1]

CapabilityDone == statistics # <<>> /\ "cpk" \in DOMAIN statistics[1]

\* C7: target_mean is the mean of the planned durations of the window, and
\* ucl = 1.2, uwl = 1.5, usl = 1.2, lsl = 0.8 times target_mean, lcl =
\* max(0, 0.8 target_mean), lwl = max(0, 0.5 target_mean); lcl and lwl are
\* never below 0.
LimitsFollowTarget ==
    LimitsDone =>
        LET st == statistics[1]
            t == st.target_mean
        IN  /\ t = 10 * Sum(target_values)
            /\ 10 * st.ucl = 12 * t
            /\ 10 * st.uwl = 15 * t
            /\ 10 * st.usl = 12 * t
            /\ 10 * st.lsl = 8 * t
            /\ 10 * st.lcl = (IF 8 * t > 0 THEN 8 * t ELSE 0)
            /\ 10 * st.lwl = (IF 5 * t > 0 THEN 5 * t ELSE 0)
            /\ st.lcl >= 0
            /\ st.lwl >= 0

\* C7 witness: limits of a negative target_mean, where the clamp acts
LimitsOfNegativeTarget ==
    LimitsDone /\ statistics[1].target_mean < 0

\* C8 as stated: ucl equals usl and lcl equals lsl, whatever target_mean is.
LimitsCoincide ==
    LimitsDone =>
        /\ statistics[1].ucl = statistics[1].usl
        /\ statistics[1].lcl = statistics[1].lsl

\* C8 amended: ucl equals usl for every (numeric) target_mean; lcl equals lsl
\* when target_mean >= 0, and for a negative target_mean lcl is 0 while lsl is
\* 0.8 target_mean, below 0.
LimitsCoincideAboveZero ==
    LimitsDone =>
        LET st == statistics[1]
        IN  /\ st.ucl = st.usl
            /\ st.target_mean >= 0 => st.lcl = st.lsl
            /\ st.target_mean < 0 => (st.lcl = 0 /\ st.lsl < 0)

\* C8 witness: limits of a positive target_mean
LimitsOfPositiveTarget ==
    /\ LimitsDone
    /\ statistics[1].target_mean > 0
    /\ statistics[1].lcl > 0

\* C9: Cpk is the smaller of Cpu and Cpl and Ppk the smaller of Ppu and Ppl;
\* Cp and Cpk are 0 when the sample standard deviation is 0 or undefined, Ppk
\* is 0 when the population standard deviation is 0, and none of the three is
\* ever NaN or infinite.
CapabilityGuarded ==
    CapabilityDone =>
        LET st == statistics[1]
        IN  /\ st.cpk = (IF st.cpu <= st.cpl THEN st.cpu ELSE st.cpl)
            /\ st.ppk = (IF st.ppu <= st.ppl THEN st.ppu ELSE st.ppl)
            /\ st.overall_std \in {0, NaN} => (st.cp = 0 /\ st.cpk = 0)
            /\ st.std_total = 0 => st.ppk = 0
            /\ {st.cp, st.cpk, st.ppk} \cap {NaN, Inf, -Inf} = {}

\* C9 witness: a window of several equal values that lie off a specification
\* limit, so that a division by the standard deviation would be x / 0
CapabilityOfConstantWindow ==
    /\ CapabilityDone
    /\ statistics[1].n_points >= 2
    /\ statistics[1].overall_std = 0
    /\ statistics[1].usl # statistics[1].overall_mean

\* C10: when the cleaning leaves no row, analyze_batch_data hands back no
\* result (no statistics, no chart, no anomaly table) and the failure reaches
\* the caller, who reports an error and no batch result.
EmptyWindowIsSignalled ==
    (pc \in {"returned", "reported"} /\ df = <<>>) =>
        /\ results = <<>>
        /\ statistics = <<>>
        /\ raised = "ValueError" \/ "error: columns not found" \in Range(shown)
        /\ pc = "reported" =>
              (shown # <<>> /\ "batch results" \notin Range(shown))

\* C10 witness: every input row was filtered out and the exception was reported
AllRowsFilteredOut ==
    /\ pc = "reported"
    /\ input # <<>>
    /\ df = <<>>
    /\ raised = "ValueError"
    /\ shown = <<"error: exception">>

----------------------------------------------------------------------------
(* Properties of the main program *)

\* the run is over: the activity part is through, or the except clause has
\* shown the exception of the batch part
RunOver == pc = "done" \/ (pc = "reported" /\ raised # None)

ActivityExecuted ==
    \/ "activity results" \in Range(shown)
    \/ "error: activity exception" \in Range(shown)

\* C11: the two pipelines fail independently: when the batch part failed
\* (it raised, or it handed back no result) the activity part is still
\* executed, and when the activity part failed the batch results that were
\* produced are still shown.
PipelinesFailIndependently ==
    RunOver =>
        /\ (raised # None \/ results = <<>>) => ActivityExecuted
        /\ ("error: activity exception" \in Range(shown) /\ results # <<>>) =>
              "batch results" \in Range(shown)

\* C12: when the cleaned frame has no column for the elapsed duration or none
\* for the planned duration, neither by the exact name nor by the fallback
\* word, analyze_batch_data shows an error and hands back nothing: no
\* statistics, no chart, no anomaly table, no cleaning log, and no exception.
MissingColumnStops ==
    (/\ pc \in {"returned", "reported", "done"}
     /\ \/ columns \cap TimeElapsedColumns = {}
        \/ columns \cap PlannedColumns = {}) =>
        /\ results = <<>>
        /\ statistics = <<>>
        /\ raised = None
        /\ "error: columns not found" \in Range(shown)
        /\ "batch results" \notin Range(shown)

\* C12 witness: a window of one row whose frame has no elapsed column
MissingElapsedColumn ==
    /\ pc = "returned"
    /\ columns \cap TimeElapsedColumns = {}
    /\ Len(df_sorted) = 1
    /\ results = <<>>
    /\ shown = <<"error: columns not found">>

----------------------------------------------------------------------------
(* Properties of the anomaly detection *)

\* analyze_batch_data has returned its results
Detected == pc = "returned" /\ results # <<>>

anomalies == results[1].anomalies
limits == results[1].statistics

\* row i of the window (i from 1) on the scale of the limits
Scaled(i) == 10 * Len(df_sorted) * df_sorted[i].elapsed

\* the point numbers of the table, and those that carry a given rule
Numbers == {anomalies[k].seq : k \in DOMAIN anomalies}
NumbersOf(rule) ==
    {anomalies[k].seq : k \in {k \in DOMAIN anomalies : anomalies[k].rule = rule}}

OutOfLimits == {i \in DOMAIN df_sorted :
                   Scaled(i) > limits.ucl \/ Scaled(i) < limits.lcl}

\* C13: the table has a Rule 1 record for row i exactly when the value of
\* the row is above ucl or below lcl, a value on a limit not being flagged;
\* a single value out of the limits gives one Rule 1 record, for its row.
Rule1FlagsOutsideLimits ==
    Detected =>
        /\ \A i \in DOMAIN df_sorted :
               i \in NumbersOf(Rule1) <=>
                   (Scaled(i) > limits.ucl \/ Scaled(i) < limits.lcl)
        /\ \A i \in DOMAIN df_sorted :
               OutOfLimits = {i} =>
                   Cardinality({k \in DOMAIN anomalies :
                                    anomalies[k].rule = Rule1}) = 1

\* C13 witness: one value beyond a limit, another one exactly on ucl, and
\* Rule 1 records the first only
SingleValueOutOfLimits ==
    /\ Detected
    /\ Len(df_sorted) >= 2
    /\ Cardinality(OutOfLimits) = 1
    /\ NumbersOf(Rule1) = OutOfLimits
    /\ \E i \in DOMAIN df_sorted :
           Scaled(i) = limits.ucl /\ i \notin NumbersOf(Rule1)

\* C14 as claimed: the deviation of every record is its actual value minus
\* the target mean of the window.
DeviationFromTargetMean ==
    Detected =>
        \A k \in DOMAIN anomalies :
            10 * Len(df_sorted) * anomalies[k].deviation =
                10 * Len(df_sorted) * anomalies[k].actual - limits.target_mean

\* C14: the deviation of every record is its actual value minus its target
\* value, and these two are the elapsed and the planned duration of the
\* record's own row.
DeviationFromOwnTarget ==
    Detected =>
        \A k \in DOMAIN anomalies :
            /\ anomalies[k].actual = df_sorted[anomalies[k].seq].elapsed
            /\ anomalies[k].target = df_sorted[anomalies[k].seq].planned
            /\ anomalies[k].deviation = anomalies[k].actual - anomalies[k].target

\* C14 witness: a record of a row that is not the first one and whose planned
\* duration is not the target mean
RecordOffTargetMean ==
    /\ Detected
    /\ \E k \in DOMAIN anomalies :
           /\ anomalies[k].seq > 1
           /\ 10 * Len(df_sorted) * anomalies[k].target # limits.target_mean
           /\ anomalies[k].target # df_sorted[1].planned
           /\ anomalies[k].deviation = anomalies[k].actual - anomalies[k].target

\* the starts (from 0) of the runs of 9 rows wholly above, or wholly below,
\* the target mean
RunsOnOneSide ==
    {s \in 0..(Len(df_sorted) - 9) :
        \/ \A j \in s..(s + 8) : Scaled(j + 1) > limits.target_mean
        \/ \A j \in s..(s + 8) : Scaled(j + 1) < limits.target_mean}

\* C15: position i is matched by rule 2 exactly when it lies in a run of 9
\* consecutive rows that are all above or all below the target mean, whatever
\* the start of the run; every matched position has a record in the table, and
\* one only.
Rule2MatchesRunsOfNine ==
    Detected =>
        \A i \in 0..(Len(df_sorted) - 1) :
            /\ i \in check_consecutive_on_one_side(
                         OnScale(data_values), limits.target_mean, 9)
                   <=> \E s \in RunsOnOneSide : s <= i /\ i <= s + 8
            /\ (\E s \in RunsOnOneSide : s <= i /\ i <= s + 8) =>
                   Cardinality({k \in DOMAIN anomalies :
                                    anomalies[k].seq = i + 1}) = 1

\* C15 witness: two overlapping runs, a row on the target mean that belongs to
\* no run, and Rule 2 records
OverlappingRunsOfNine ==
    /\ Detected
    /\ Cardinality(RunsOnOneSide) >= 2
    /\ \E i \in DOMAIN df_sorted :
           Scaled(i) = limits.target_mean /\ i \notin Numbers
    /\ Cardinality(NumbersOf(Rule2)) >= 9

\* the starts of the runs of 6 rows that rise, or fall, at every step
Trends ==
    {s \in 0..(Len(df_sorted) - 6) :
        \/ \A j \in s..(s + 4) : df_sorted[j + 1].elapsed < df_sorted[j + 2].elapsed
        \/ \A j \in s..(s + 4) : df_sorted[j + 1].elapsed > df_sorted[j + 2].elapsed}

\* C16: position i is matched by rule 3 exactly when it lies in a run of 6
\* consecutive rows that rises at every step or falls at every step; every
\* matched position has a record in the table; and all 6 positions of the
\* window 1, 2, 3, 4, 5, 6 are matched.
Rule3MatchesTrendsOfSix ==
    Detected =>
        /\ \A i \in 0..(Len(df_sorted) - 1) :
              /\ i \in check_trend(data_values, 6)
                     <=> \E s \in Trends : s <= i /\ i <= s + 5
              /\ (\E s \in Trends : s <= i /\ i <= s + 5) => i + 1 \in Numbers
        /\ check_trend(<<1, 2, 3, 4, 5, 6>>, 6) = 0..5

\* C16 witness: a window of 6 rising rows, all recorded, and by rule 3
SixRisingRows ==
    /\ Detected
    /\ Len(df_sorted) = 6
    /\ Trends = {0}
    /\ NumbersOf(Rule3) = 1..6

\* the 14 rows from position s on go up at the first step and then down and
\* up in turn, resp. down at the first step and then up and down in turn
UpStart(s) ==
    \A j \in 0..12 :
        IF j % 2 = 0 THEN df_sorted[s + j + 1].elapsed < df_sorted[s + j + 2].elapsed
        ELSE df_sorted[s + j + 1].elapsed > df_sorted[s + j + 2].elapsed
DownStart(s) ==
    \A j \in 0..12 :
        IF j % 2 = 0 THEN df_sorted[s + j + 1].elapsed > df_sorted[s + j + 2].elapsed
        ELSE df_sorted[s + j + 1].elapsed < df_sorted[s + j + 2].elapsed

Matches(rule) ==
    CASE rule = Rule1 -> OutsidePositions(OnScale(data_values), limits.ucl,
                                          limits.lcl)
      [] rule = Rule2 -> check_consecutive_on_one_side(
                             OnScale(data_values), limits.target_mean, 9)
      [] rule = Rule3 -> check_trend(data_values, 6)
      [] rule = Rule4 -> check_alternating(data_values, 14)

\* the first of the rules 1, 2, 3, 4 that matches position i
FirstRule(i) ==
    IF i \in Matches(Rule1) THEN Rule1
    ELSE IF i \in Matches(Rule2) THEN Rule2
    ELSE IF i \in Matches(Rule3) THEN Rule3
    ELSE Rule4

\* C18: no row has two records in the table, and the rule of a record is the
\* first of the rules 1, 2, 3, 4 that matches its row.
FirstRuleWins ==
    Detected =>
        /\ \A k, l \in DOMAIN anomalies :
               anomalies[k].seq = anomalies[l].seq => k = l
        /\ \A k \in DOMAIN anomalies :
               /\ \E rule \in {Rule1, Rule2, Rule3, Rule4} :
                      anomalies[k].seq - 1 \in Matches(rule)
               /\ anomalies[k].rule = FirstRule(anomalies[k].seq - 1)

\* C18 witness: a row matched by rules 1, 2 and 3 and recorded by rule 1, and
\* a row matched by rules 2 and 3 and recorded by rule 2
RowMatchedByThreeRules ==
    /\ Detected
    /\ \E k \in DOMAIN anomalies :
           /\ anomalies[k].seq - 1 \in
                  Matches(Rule1) \cap Matches(Rule2) \cap Matches(Rule3)
           /\ anomalies[k].rule = Rule1
    /\ \E k \in DOMAIN anomalies :
           /\ anomalies[k].seq - 1 \in
                  (Matches(Rule2) \cap Matches(Rule3)) \ Matches(Rule1)
           /\ anomalies[k].rule = Rule2

\* C19: no two records of the table have the same batch number and the same
\* time.
NoTwoRecordsOfOneBatch ==
    Detected =>
        \A k, l \in DOMAIN anomalies :
            (anomalies[k].id = anomalies[l].id
                /\ anomalies[k].time = anomalies[l].time) => k = l

\* C19 witness: a table with records of two rules, one of them for a row that
\* a later rule matches too
TableOfTwoRules ==
    /\ Detected
    /\ NumbersOf(Rule1) # {}
    /\ NumbersOf(Rule3) # {}
    /\ \E i \in NumbersOf(Rule1) : i - 1 \in Matches(Rule3)

\* C20: the records of the table come in strictly ascending point number.
TableInPointOrder ==
    Detected =>
        \A k \in 1..(Len(anomalies) - 1) : anomalies[k].seq < anomalies[k + 1].seq

\* C20 witness: rule 2 appended the record of a row that comes before a row
\* rule 1 had recorded
AppendedOutOfOrder ==
    /\ Detected
    /\ Len(anomalies) >= 2
    /\ \E k \in 1..(Len(anomalies) - 1) :
           anomaly_records(df_sorted, limits)[k].seq
               > anomaly_records(df_sorted, limits)[k + 1].seq

\* C21: on a window of at least one row, a rule that needs more rows than
\* the window has (9 for rule 2, 6 for rule 3, 14 for rule 4) matches nothing
\* and records nothing, no exception leaves analyze_batch_data, and rule 1
\* still records every row that is out of the limits.
ShortWindowRuleIsSilent ==
    (pc = "returned" /\ Len(df_sorted) >= 1) =>
        /\ raised = None
        /\ results # <<>>
        /\ Len(df_sorted) < 9 => (Matches(Rule2) = {} /\ NumbersOf(Rule2) = {})
        /\ Len(df_sorted) < 6 => (Matches(Rule3) = {} /\ NumbersOf(Rule3) = {})
        /\ Len(df_sorted) < 14 => (Matches(Rule4) = {} /\ NumbersOf(Rule4) = {})
        /\ NumbersOf(Rule1) = OutOfLimits

\* C21 witness: 5 rows that rise at every step, too few for rule 3, one of
\* them recorded by rule 1
ShortRisingWindow ==
    /\ Detected
    /\ Len(df_sorted) = 5
    /\ \A i \in 1..4 : df_sorted[i].elapsed < df_sorted[i + 1].elapsed
    /\ Cardinality(NumbersOf(Rule1)) = 1
    /\ Numbers = NumbersOf(Rule1)

\* the window of scenario B: 9 rows of 15 minutes each, the target mean being
\* 10 minutes
NineRowsOfFifteen ==
    /\ Detected
    /\ Len(df_sorted) = 9
    /\ \A i \in DOMAIN df_sorted : df_sorted[i].elapsed = 1500
    /\ limits.target_mean = 10 * 9 * 1000

\* C22 as claimed: all 9 rows of scenario B are in the table, and their
\* records carry rule 2.
ScenarioBFlaggedByRule2 ==
    NineRowsOfFifteen => (Numbers = 1..9 /\ NumbersOf(Rule2) = 1..9)

\* C22: all 9 rows of scenario B are in the table; rule 2 matches all of them,
\* but their records carry rule 1, each value being above ucl = 12, and rule 2
\* adds no record.
ScenarioBFlaggedByRule1 ==
    NineRowsOfFifteen =>
        /\ limits.ucl = 10 * 9 * 1200
        /\ Numbers = 1..9
        /\ Matches(Rule2) = 0..8
        /\ NumbersOf(Rule1) = 1..9
        /\ NumbersOf(Rule2) = {}

\* C22 witness: the table of scenario B has its 9 records
ScenarioBTable == NineRowsOfFifteen /\ Len(anomalies) = 9

\* every value of the window is the target mean, which is not negative
LevelWindow ==
    /\ Detected
    /\ limits.target_mean >= 0
    /\ \A i \in DOMAIN df_sorted : Scaled(i) = limits.target_mean

DetectionIsDeterministic ==
    Detected => AnomalyTables(df_sorted, limits) = {anomalies}

\* C24 witness: two runs that append their records in different orders
RunsAppendDifferently ==
    /\ Detected
    /\ Len(anomalies) >= 2
    /\ RecordsWalked(df_sorted, limits, TRUE)
           # RecordsWalked(df_sorted, limits, FALSE)
    /\ AnomalyTables(df_sorted, limits) = {anomalies}

----------------------------------------------------------------------------
(* Properties of the anomaly table as a whole *)

\* C27: the point numbers of the table are the positions that the four rules
\* match, none being lost: the rows of the window have distinct batch
\* numbers, a position has one record at most, and so drop_duplicates removes
\* no record.
NoFlaggedPointIsLost ==
    Detected =>
        /\ Numbers = {i + 1 : i \in UNION {Matches(rule) :
                                              rule \in {Rule1, Rule2, Rule3, Rule4}}}
        /\ \A i, j \in DOMAIN df_sorted :
               df_sorted[i].id = df_sorted[j].id => i = j
        /\ DropDuplicateRecords(anomaly_records(df_sorted, limits))
               = anomaly_records(df_sorted, limits)
        /\ Len(anomalies) = Len(anomaly_records(df_sorted, limits))

\* C27 witness: a table with records of three rules, for rows that two rules
\* match among them
TableOfThreeRules ==
    /\ Detected
    /\ NumbersOf(Rule1) # {}
    /\ NumbersOf(Rule2) # {}
    /\ NumbersOf(Rule3) # {}
    /\ Matches(Rule2) \cap Matches(Rule3) # {}
    /\ Cardinality(Numbers) >= 10

----------------------------------------------------------------------------
(* Properties of the percentiles *)

\* C25: on a window of at least one row, the 10th and 25th percentile, the
\* median and the 75th and 90th percentile come in ascending order, and they
\* lie between the smallest and the largest value.
PercentilesInOrder ==
    (statistics # <<>> /\ statistics[1].n_points >= 1) =>
        LET st == statistics[1]
        IN  /\ 100 * st.min_value <= st.front_10_percentile
            /\ st.front_10_percentile <= st.front_25_percentile
            /\ st.front_25_percentile <= st.overall_median
            /\ st.overall_median <= st.back_25_percentile
            /\ st.back_25_percentile <= st.back_10_percentile
            /\ st.back_10_percentile <= 100 * st.max_value

\* C25 witness: a window whose percentiles all differ and lie between two
\* values of the window
PercentilesBetweenValues ==
    /\ statistics # <<>>
    /\ statistics[1].n_points >= 4
    /\ 100 * statistics[1].min_value < statistics[1].front_10_percentile
    /\ statistics[1].front_10_percentile < statistics[1].front_25_percentile
    /\ statistics[1].front_25_percentile < statistics[1].overall_median
    /\ statistics[1].overall_median < statistics[1].back_25_percentile
    /\ statistics[1].back_25_percentile < statistics[1].back_10_percentile
    /\ statistics[1].back_10_percentile < 100 * statistics[1].max_value
    /\ \A i \in DOMAIN df_sorted :
           statistics[1].front_10_percentile # 100 * df_sorted[i].elapsed

----------------------------------------------------------------------------
(* Properties of the activity pipeline *)

\* analyze_activity_data has returned its results
ActivityDone == pc = "done" /\ activity_results # <<>>

phase_analysis == activity_results[1].phase_analysis

\* the rows of the activity file that the cleaning keeps and that have the
\* given phase name
CleanedRowsOf(phase) ==
    {i \in DOMAIN activity_file.rows :
        /\ activity_file.rows[i].area \in area_list
        /\ activity_file.rows[i].type = DryClean
        /\ activity_file.rows[i].seconds # NaN
        /\ activity_file.rows[i].phase = phase}

\* C26: the phase analysis has an entry for a phase name exactly when the
\* name is one of the four fixed ones and a cleaned row has it; a phase
\* without a row has no entry; and the record count of an entry is the number
\* of cleaned rows of the phase, which is 1 at least.
PhaseEntriesAreTheNonEmptyPhases ==
    ActivityDone =>
        /\ \A phase \in {"preparation", "clearance", "changeover", "line setup",
                         "other"} :
               phase \in DOMAIN phase_analysis <=>
                   /\ phase \in {"preparation", "clearance", "changeover",
                                 "line setup"}
                   /\ CleanedRowsOf(phase) # {}
        /\ \A phase \in DOMAIN phase_analysis :
               /\ phase_analysis[phase].count >= 1
               /\ phase_analysis[phase].count = Cardinality(CleanedRowsOf(phase))

\* C26 witness: two rows of one phase, one of which the cleaning dropped, and
\* no row of the other phases
PhaseOfOneCleanedRow ==
    /\ ActivityDone
    /\ Len(activity_file.rows) = 2
    /\ \A i \in 1..2 : activity_file.rows[i].phase = "clearance"
    /\ DOMAIN phase_analysis = {"clearance"}
    /\ phase_analysis["clearance"].count = 1

\* C28: the two pipelines accept the same lines: the line of an activity row
\* passes the Area filter of the activity pipeline exactly when it passes
\* step 5 of the batch cleaning.
SameLinesInBothPipelines ==
    ActivityDone =>
        \A i \in DOMAIN activity_file.rows :
            LET line == activity_file.rows[i].area
            IN  KeepAreas(<<[area |-> line]>>) # <<>>
                    <=> KeepAllowedLocations(<<[location |-> line]>>) # <<>>

====
